---- MODULE Spec2Model ----
(***************************************************************************)
(* HealthBridge AI: the message-processing pipeline of                     *)
(* agents/coordinator.py (CoordinatorAgent.process_message), the language  *)
(* and messaging adapters it calls, the patients table it shares with the  *)
(* patient-creation route, and the webhook that schedules a turn.          *)
(*                                                                         *)
(* Texts are sequences of strings.  Inbound messages, classifier output    *)
(* and intents are spelled character by character, so that lower(),        *)
(* strip() and substring containment are computed; a string literal of     *)
(* the source that is only ever passed around is a single chunk.           *)
(* An optional value is None (the empty sequence) or Some(v) (<<v>>).      *)
(***************************************************************************)
EXTENDS Integers, Sequences, FiniteSets, TLC

\* ------------------------------------------------------------------ bounds
MaxTurns == 2          \* webhook deliveries admitted in one behaviour
MaxRouteCalls == 1     \* POST /api/patients/ requests in one behaviour
MaxFaults == 2         \* capability calls that misbehave in one behaviour
ClusterFaults == 1     \* the same, when several server processes are modelled
FairFaults == 0        \* the same, when the scheduling of the tasks is modelled

\* ------------------------------------------------------------ Python values
None == <<>>
Some(v) == <<v>>

\* Python truthiness of a str (or of None): only the empty one is falsy.
Truthy(text) == text # <<>>

\* dict.get(key) on a dict modelled as a function over its keys.
Get(d, key) == IF key \in DOMAIN d THEN d[key] ELSE None

UpperChars == <<"A", "B", "C", "D", "E", "F", "G", "H", "I", "J", "K", "L", "M",
                "N", "O", "P", "Q", "R", "S", "T", "U", "V", "W", "X", "Y", "Z">>
LowerChars == <<"a", "b", "c", "d", "e", "f", "g", "h", "i", "j", "k", "l", "m",
                "n", "o", "p", "q", "r", "s", "t", "u", "v", "w", "x", "y", "z">>

LowerChar(c) ==
    IF \E i \in 1..Len(UpperChars) : UpperChars[i] = c
    THEN LowerChars[CHOOSE i \in 1..Len(UpperChars) : UpperChars[i] = c]
    ELSE c

\* str.lower()
Lower(text) == [i \in 1..Len(text) |-> LowerChar(text[i])]

IsSpace(c) == c \in {" ", "\n", "\t"}

RECURSIVE LStrip(_)
LStrip(text) ==
    IF text # <<>> /\ IsSpace(Head(text)) THEN LStrip(Tail(text)) ELSE text

RECURSIVE RStrip(_)
RStrip(text) ==
    IF text # <<>> /\ IsSpace(text[Len(text)])
    THEN RStrip(SubSeq(text, 1, Len(text) - 1)) ELSE text

\* str.strip(): drop leading and trailing whitespace
Strip(text) == RStrip(LStrip(text))

\* the `in` operator on two strs: substring containment
Contains(text, sub) ==
    \E i \in 1..(Len(text) - Len(sub) + 1) : SubSeq(text, i, i + Len(sub) - 1) = sub

\* -------------------------------------------------- literals of the source
BOOK_APPOINTMENT == <<"b", "o", "o", "k", "_", "a", "p", "p", "o", "i", "n", "t", "m", "e", "n", "t">>
RESCHEDULE_APPOINTMENT == <<"r", "e", "s", "c", "h", "e", "d", "u", "l", "e", "_", "a", "p", "p", "o", "i", "n", "t", "m", "e", "n", "t">>
CANCEL_APPOINTMENT == <<"c", "a", "n", "c", "e", "l", "_", "a", "p", "p", "o", "i", "n", "t", "m", "e", "n", "t">>
ASK_QUESTION == <<"a", "s", "k", "_", "q", "u", "e", "s", "t", "i", "o", "n">>
GREETING == <<"g", "r", "e", "e", "t", "i", "n", "g">>
AFFIRMATIVE == <<"a", "f", "f", "i", "r", "m", "a", "t", "i", "v", "e">>
NEGATIVE == <<"n", "e", "g", "a", "t", "i", "v", "e">>
UNCLEAR == <<"u", "n", "c", "l", "e", "a", "r">>

\* the intents listed by the classification prompt
IntentVocabulary ==
    {BOOK_APPOINTMENT, RESCHEDULE_APPOINTMENT, CANCEL_APPOINTMENT, ASK_QUESTION,
     GREETING, AFFIRMATIVE, NEGATIVE, UNCLEAR}

KW_BOOK == <<"b", "o", "o", "k">>
KW_APPOINTMENT == <<"a", "p", "p", "o", "i", "n", "t", "m", "e", "n", "t">>
KW_HELLO == <<"h", "e", "l", "l", "o">>
KW_HABARI == <<"h", "a", "b", "a", "r", "i">>

GreetingTemplate ==
    <<"Hello! Welcome to HealthBridge AI. How can I help you today? You can ask to book an appointment, or ask a health-related question.">>
BookTemplate ==
    <<"I can help with that. To book an appointment, I need to know the reason for your visit and your preferred date and time.">>
UnclearTemplate ==
    <<"I'm sorry, I didn't understand that. Could you please rephrase? You can ask to book an appointment or ask a health question.">>

\* f"Intent identified: {intent}. The '{intent}' agent will assist you shortly."
GenericTemplate(intent) ==
    <<"Intent identified: ">> \o intent \o <<". The '">> \o intent
        \o <<"' agent will assist you shortly.">>

\* ------------------------------------------------------- input domains
Langs == {"en", "sw"}

PHONE_A == <<"+100">>
PHONE_B == <<"+200">>
Phones == {PHONE_A, PHONE_B}

MSG_BOOK == <<"B", "o", "o", "k">>
MSG_HABARI == <<"h", "a", "b", "a", "r", "i">>
InboundTexts == {MSG_BOOK, MSG_HABARI}

\* the deliveries (From, Body) the messaging provider makes
Deliveries == { <<<<"whatsapp:">> \o PHONE_A, MSG_BOOK>>,
                <<<<"whatsapp:">> \o PHONE_B, MSG_HABARI>> }

Workers == {"w1", "w2"}

\* messages handed to classify_intent when it is exercised on its own
TEXT_APPOINTMENT == <<"A", "P", "P", "O", "I", "N", "T", "M", "E", "N", "T">>
TEXT_HELLO == <<"H", "e", "l", "l", "o", "!">>
TEXT_HELLO_BOOK == <<"h", "e", "l", "l", "o", " ", "b", "o", "o", "k">>
TEXT_BOO == <<"b", "o", "o">>
TEXT_THANKS == <<"t", "h", "a", "n", "k", "s">>
ClassifierTexts ==
    {MSG_BOOK, MSG_HABARI, TEXT_APPOINTMENT, TEXT_HELLO, TEXT_HELLO_BOOK, TEXT_BOO,
     TEXT_THANKS, <<>>}

\* ------------------------------------------------------ language service
\* What the translation provider hands back for one call: a text (possibly
\* empty), TranslationNotFound, or another exception whose str() is msg.
Rendered(text, dest_lang) == <<"[", dest_lang, "]">> \o text

TranslatorOutcomes(text, dest_lang) ==
    { [kind |-> "text", text |-> Rendered(text, dest_lang)],
      [kind |-> "text", text |-> <<>>],
      [kind |-> "not_found", msg |-> <<"no translation">>],
      [kind |-> "raise", msg |-> <<"connection refused">>],
      [kind |-> "raise", msg |-> <<>>] }

translate_text(text, dest_lang, out) ==
    IF ~Truthy(text)
    THEN [error |-> <<"Invalid input text for translation.">>]
    ELSE CASE out.kind = "text" ->
                IF Truthy(out.text)
                THEN [translated_text |-> out.text,
                      source_language |-> "auto detected",
                      dest_language |-> dest_lang]
                ELSE [error |-> <<"Translation returned an empty result.">>]
           [] out.kind = "not_found" ->
                [error |-> <<"Could not translate the text. It might be too short or in an unsupported language. Details: ">> \o out.msg]
           [] OTHER -> [error |-> out.msg]

\* detect(text) -> {language, error?}: a language code, an error, or both.
DetectOutcomes ==
    { [language |-> l] : l \in Langs }
        \cup { [language |-> "sw", error |-> <<"detection failed">>],
               [error |-> <<"detection failed">>] }

detect_language(text, out) == out

\* a call of a capability that misbehaves: 1, otherwise 0
DetectFault(out) == IF "error" \in DOMAIN out THEN 1 ELSE 0
TranslatorFault(out) == IF out.kind = "text" /\ Truthy(out.text) THEN 0 ELSE 1

\* ------------------------------------------------------------- classifier
LLM_GREETING == <<" ", "G", "r", "e", "e", "t", "i", "n", "g", "\n">>
LLM_OTHER == <<"r", "e", "f", "i", "l", "l">>

\* What llm_chain.run hands back: a completion, or an exception.
ClassifierFault(out) ==
    IF out.kind = "text" /\ Lower(Strip(out.text)) \in IntentVocabulary THEN 0 ELSE 1

ClassifierOutcomes ==
    { [kind |-> "text", text |-> LLM_GREETING],
      [kind |-> "text", text |-> LLM_OTHER],
      [kind |-> "raise"] }

\* the greeting tokens are tested before the booking keywords
KeywordFallback_greeting_first(message) ==
    IF Contains(Lower(message), KW_HELLO) \/ Contains(Lower(message), KW_HABARI)
    THEN GREETING
    ELSE IF Contains(Lower(message), KW_BOOK) \/ Contains(Lower(message), KW_APPOINTMENT)
         THEN BOOK_APPOINTMENT
         ELSE UNCLEAR

\* the fallback of classify_intent when llm_chain is None
KeywordFallback(message) ==
    IF Contains(Lower(message), KW_BOOK) \/ Contains(Lower(message), KW_APPOINTMENT)
    THEN BOOK_APPOINTMENT
    ELSE IF Contains(Lower(message), KW_HELLO) \/ Contains(Lower(message), KW_HABARI)
         THEN GREETING
         ELSE UNCLEAR

classify_intent(chain, message, out) ==
    IF ~chain
    THEN KeywordFallback(message)
    ELSE IF out.kind = "text"
         THEN Lower(Strip(out.text))
         ELSE UNCLEAR

\* the branch for 'unclear' is missing: it gets the generic acknowledgement
ResponseTextEn_unclear_generic(intent) ==
    IF intent = GREETING THEN GreetingTemplate
    ELSE IF intent = BOOK_APPOINTMENT THEN BookTemplate
    ELSE GenericTemplate(intent)

\* process_message step 5: the canonical English reply for an intent
ResponseTextEn(intent) ==
    IF intent = GREETING THEN GreetingTemplate
    ELSE IF intent = BOOK_APPOINTMENT THEN BookTemplate
    ELSE IF intent = UNCLEAR THEN UnclearTemplate
    ELSE GenericTemplate(intent)

\* -------------------------------------------------------------- messaging
SendOutcomes == {"sid", "raise"}
SendFault(out) == IF out = "sid" THEN 0 ELSE 1

\* to_number as handed to the Twilio client
ToNumber(to_number) ==
    IF Len(to_number) > 0 /\ Head(to_number) = "whatsapp:"
    THEN to_number
    ELSE <<"whatsapp:">> \o to_number

\* the value send_whatsapp_message returns
send_whatsapp_message(cl, to_number, message_body, out) ==
    IF ~cl THEN "not_initialized"
    ELSE IF out = "sid" THEN "sid" ELSE "error"

\* ---------------------------------------------------------- patients table
\* phone_number declared without unique=True: no INSERT is refused
UniqueViolation_unconstrained(pats, phone_number) == FALSE

\* Patient.phone_number is declared unique=True: the commit of an INSERT
\* whose phone number is already present raises IntegrityError.
UniqueViolation(pats, phone_number) ==
    \E p \in pats : p.phone_number = phone_number

\* the query filters on another column and finds no row
PatientByPhone_miss(pats, phone_number) == None

\* query(Patient).filter(phone_number == ...).first()
PatientByPhone(pats, phone_number) ==
    IF \E p \in pats : p.phone_number = phone_number
    THEN Some(CHOOSE p \in pats : p.phone_number = phone_number)
    ELSE None

InsertPatient(pats, id, phone_number, language) ==
    pats \cup {[id |-> id, phone_number |-> phone_number, language |-> language]}

\* patient.language is assigned but the change is never committed
UpdateLanguage_uncommitted(pats, id, language) == pats

\* patient.language = language; commit
UpdateLanguage(pats, id, language) ==
    {IF p.id = id THEN [p EXCEPT !.language = language] ELSE p : p \in pats}

\* ------------------------------------------------------------- transcript
\* the reply is added to the session but never committed
log_message_reply_lost(msgs, t, patient_id, session_id, sender, content, translated_content, lang) ==
    IF sender = "coordinator" THEN msgs
    ELSE Append(msgs, [id |-> Len(msgs) + 1, turn |-> t, patient_id |-> patient_id,
                       session_id |-> session_id, sender |-> sender, content |-> content,
                       translated_content |-> translated_content, language |-> lang])

\* the patient's message is added to the session but never committed
log_message_inbound_lost(msgs, t, patient_id, session_id, sender, content, translated_content, lang) ==
    IF sender = "patient" THEN msgs
    ELSE Append(msgs, [id |-> Len(msgs) + 1, turn |-> t, patient_id |-> patient_id,
                       session_id |-> session_id, sender |-> sender, content |-> content,
                       translated_content |-> translated_content, language |-> lang])

log_message(msgs, t, patient_id, session_id, sender, content, translated_content, lang) ==
    Append(msgs, [id |-> Len(msgs) + 1,
                  turn |-> t,
                  patient_id |-> patient_id,
                  session_id |-> session_id,
                  sender |-> sender,
                  content |-> content,
                  translated_content |-> translated_content,
                  language |-> lang])

\* ------------------------------------------------------------------ state
VARIABLES
    llm_chain,    \* CoordinatorAgent.llm_chain is configured (not None)
    client,       \* utils.whatsapp.client is initialised (not None)
    patients,     \* rows of the patients table
    next_id,      \* next value of the patients.id sequence
    messages,     \* rows of the messages table, in insertion order
    sends,        \* calls of send_whatsapp_message, in call order
    admitted,     \* webhook deliveries admitted so far
    faults,       \* capability calls that have misbehaved so far
    turn,         \* per scheduled process_message task: its locals and position
    requested,    \* POST /api/patients/ requests received so far
    route         \* per create_patient request: its locals and position

vars == <<llm_chain, client, patients, next_id, messages, sends, admitted, faults, turn,
          requested, route>>

TurnIds == 1..MaxTurns
RouteIds == 1..MaxRouteCalls

\* a task slot no delivery has used yet
IdleTurn ==
    [pc |-> "idle", worker |-> "w1",
     incoming_msg |-> <<>>, patient_phone |-> <<>>,
     lang_detection |-> <<>>, source_lang |-> "",
     message_for_processing |-> <<>>,
     patient |-> None, intent |-> None,
     response_text_en |-> <<>>, final_response |-> <<>>,
     result |-> None, exception |-> "",
     \* what the webhook answered to the request that delivered the message
     ack |-> "",
     \* history of the calls the turn has made
     trace |-> <<>>, classify_arg |-> None,
     in_translated |-> FALSE, back_translated |-> FALSE,
     llm_called |-> FALSE, classifier_raised |-> FALSE]

IdleRoute == [pc |-> "idle", phone_number |-> <<>>, language |-> "", status |-> 0]

Init ==
    /\ llm_chain \in BOOLEAN
    /\ client \in BOOLEAN
    /\ patients = {}
    /\ next_id = 1
    /\ messages = <<>>
    /\ sends = <<>>
    /\ admitted = 0
    /\ faults = 0
    /\ turn = [t \in TurnIds |-> IdleTurn]
    /\ requested = 0
    /\ route = [r \in RouteIds |-> IdleRoute]

\* positions of a task that has started and has neither returned nor raised
Running == {"lookup", "insert", "update", "log_in", "classify", "send", "log_out"}

\* process_message awaits its capability calls: the loop is free at each of them
Busy_suspends(w) == FALSE

\* process_message has no await: once a task runs on a worker's event loop,
\* nothing else scheduled on that loop takes a step until it ends.
Busy(w) == \E t \in TurnIds : turn[t].worker = w /\ turn[t].pc \in Running

\* Worker processes are interchangeable: a delivery is routed to a worker that
\* has served one already, or to the next one that has not.
Serving ==
    LET used == {turn[t].worker : t \in {u \in TurnIds : turn[u].pc # "idle"}}
    IN  IF used = {} THEN {"w1"} ELSE Workers

\* the webhook awaits the turn: an exception of the turn reaches its handler,
\* which answers 500
Raise_surfaces(t, exc) ==
    [turn EXCEPT ![t].pc = "failed", ![t].exception = exc, ![t].ack = "500"]

\* an exception leaves process_message: the task ends, nobody awaits it
Raise(t, exc) == [turn EXCEPT ![t].pc = "failed", ![t].exception = exc]

\* ---------------------------------------------------------------- webhook
\* From.split('whatsapp:')[1] if 'whatsapp:' in From else From
WebhookPhone(From) ==
    IF \E i \in 1..Len(From) : From[i] = "whatsapp:"
    THEN LET i == CHOOSE k \in 1..Len(From) :
                    /\ From[k] = "whatsapp:"
                    /\ \A j \in 1..(k - 1) : From[j] # "whatsapp:"
             rest == SubSeq(From, i + 1, Len(From))
             stop == {k \in 1..Len(rest) : rest[k] = "whatsapp:"}
         IN  IF stop = {} THEN rest
             ELSE SubSeq(rest, 1, (CHOOSE k \in stop : \A j \in stop : k <= j) - 1)
    ELSE From

\* POST /api/whatsapp/webhook: create the coordinator, schedule the turn with
\* asyncio.create_task and return the acknowledgement.
whatsapp_webhook(w, From, Body) ==
    /\ admitted < MaxTurns
    /\ w \in Serving
    /\ ~Busy(w)
    /\ admitted' = admitted + 1
    /\ turn' = [turn EXCEPT ![admitted + 1] =
                    [IdleTurn EXCEPT !.pc = "scheduled", !.worker = w,
                                     !.ack = "received",
                                     !.incoming_msg = Body,
                                     !.patient_phone = WebhookPhone(From)]]
    /\ UNCHANGED <<llm_chain, client, patients, next_id, messages, sends, faults,
                   requested, route>>

\* ------------------------------------------------- process_message, by step
\* translate_text applied by process_message: the text the caller goes on with
\* (text unchanged when the result carries an error), or the KeyError raised by
\* indexing "translated_text" in a result that has none.
Translated(text, translation) ==
    IF ~Truthy(Get(translation, "error"))
    THEN IF "translated_text" \in DOMAIN translation
         THEN [raised |-> FALSE, done |-> TRUE, text |-> translation.translated_text]
         ELSE [raised |-> TRUE, done |-> FALSE, text |-> text]
    ELSE [raised |-> FALSE, done |-> FALSE, text |-> text]

\* lang_detection.get("language") with no default: a missing code is not 'en'
SourceLang_no_default(lang_detection) ==
    IF "language" \in DOMAIN lang_detection THEN lang_detection.language ELSE ""

\* lang_detection.get("language", "en")
SourceLang(lang_detection) ==
    IF "language" \in DOMAIN lang_detection THEN lang_detection.language ELSE "en"

\* the detection's error is not consulted
NeedsTranslation_ignores_error(source_lang, lang_detection) == source_lang # "en"

\* the condition of coordinator.py line 133
NeedsTranslation(source_lang, lang_detection) ==
    source_lang # "en" /\ ~Truthy(Get(lang_detection, "error"))

\* 1. Detect language and translate to English if necessary
Normalize(t, dout, budget) ==
    /\ turn[t].pc = "scheduled"
    /\ ~Busy(turn[t].worker)
    /\ LET lang_detection == detect_language(turn[t].incoming_msg, dout)
           source_lang == SourceLang(lang_detection)
           started == [turn EXCEPT
                         ![t].lang_detection = lang_detection,
                         ![t].source_lang = source_lang,
                         ![t].message_for_processing = turn[t].incoming_msg,
                         ![t].trace = Append(@, "detect"),
                         ![t].pc = "lookup"]
       IN  IF NeedsTranslation(source_lang, lang_detection)
           THEN \E tout \in TranslatorOutcomes(turn[t].incoming_msg, "en") :
                  LET tr == Translated(turn[t].incoming_msg,
                                       translate_text(turn[t].incoming_msg, "en", tout))
                  IN  /\ faults' = faults + DetectFault(dout) + TranslatorFault(tout)
                      /\ turn' = IF tr.raised
                                 THEN [started EXCEPT ![t].pc = "failed",
                                                      ![t].exception = "KeyError"]
                                 ELSE [started EXCEPT
                                         ![t].message_for_processing = tr.text,
                                         ![t].in_translated = tr.done,
                                         ![t].trace = Append(@, "translate_in")]
           ELSE /\ faults' = faults + DetectFault(dout)
                /\ turn' = started
    /\ faults' <= budget
    /\ UNCHANGED <<llm_chain, client, patients, next_id, messages, sends,
                   admitted, requested, route>>

\* 2. get_or_create_patient: the query
Lookup(t) ==
    /\ turn[t].pc = "lookup"
    /\ LET found == PatientByPhone(patients, turn[t].patient_phone)
       IN  turn' = [turn EXCEPT
                ![t].patient = IF found = None THEN None ELSE Some(found[1].id),
                ![t].pc = IF found = None THEN "insert"
                          ELSE IF found[1].language # turn[t].source_lang
                               THEN "update" ELSE "log_in"]
    /\ UNCHANGED <<llm_chain, client, patients, next_id, messages, sends,
                   admitted, faults, requested, route>>

\* 2. get_or_create_patient: add, commit, refresh of a new Patient
Insert(t) ==
    /\ turn[t].pc = "insert"
    /\ IF UniqueViolation(patients, turn[t].patient_phone)
       THEN /\ turn' = Raise(t, "IntegrityError")
            /\ UNCHANGED <<patients>>
       ELSE /\ patients' = InsertPatient(patients, next_id, turn[t].patient_phone,
                                         turn[t].source_lang)
            /\ turn' = [turn EXCEPT ![t].patient = Some(next_id),
                                    ![t].trace = Append(@, "insert"),
                                    ![t].pc = "log_in"]
    \* the id sequence advances whether or not the INSERT commits
    /\ next_id' = next_id + 1
    /\ UNCHANGED <<llm_chain, client, messages, sends, admitted, faults, requested, route>>

\* 2. get_or_create_patient: patient.language = language; commit
Update(t) ==
    /\ turn[t].pc = "update"
    /\ patients' = UpdateLanguage(patients, turn[t].patient[1], turn[t].source_lang)
    /\ turn' = [turn EXCEPT ![t].trace = Append(@, "update"), ![t].pc = "log_in"]
    /\ UNCHANGED <<llm_chain, client, next_id, messages, sends, admitted, faults,
                   requested, route>>

\* translated_content of the inbound Message (coordinator.py line 147)
InboundTranslatedContent(source_lang, message_for_processing) ==
    IF source_lang # "en" THEN Some(message_for_processing) ELSE None

\* translated_content of the outbound Message (coordinator.py line 178)
OutboundTranslatedContent(source_lang, response_text_en) ==
    IF source_lang # "en" THEN Some(response_text_en) ELSE None

\* the incoming message is not logged before it is classified
LogIn_skipped(t) ==
    /\ turn[t].pc = "log_in"
    /\ turn' = [turn EXCEPT ![t].pc = "classify"]
    /\ UNCHANGED <<llm_chain, client, patients, next_id, messages, sends, admitted,
                   faults, requested, route>>

\* 3. log the incoming message
LogIn(t) ==
    /\ turn[t].pc = "log_in"
    /\ messages' = log_message(messages, t, turn[t].patient[1], turn[t].patient_phone,
                               "patient", turn[t].incoming_msg,
                               InboundTranslatedContent(turn[t].source_lang,
                                                        turn[t].message_for_processing),
                               turn[t].source_lang)
    /\ turn' = [turn EXCEPT ![t].trace = Append(@, "log_in"), ![t].pc = "classify"]
    /\ UNCHANGED <<llm_chain, client, patients, next_id, sends, admitted, faults,
                   requested, route>>

\* 4. classify_intent(message_for_processing); 5. pick the English reply;
\* 6. translate the reply back to the patient's language
Respond(t, cout, budget) ==
    /\ turn[t].pc = "classify"
    /\ \E intent \in {classify_intent(llm_chain, turn[t].message_for_processing, cout)},
          called \in {IF llm_chain THEN ClassifierFault(cout) ELSE 0} :
       LET response_text_en == ResponseTextEn(intent)
           classified == [turn EXCEPT
                            ![t].intent = Some(intent),
                            ![t].response_text_en = response_text_en,
                            ![t].final_response = response_text_en,
                            ![t].classify_arg = Some(turn[t].message_for_processing),
                            ![t].llm_called = llm_chain,
                            ![t].classifier_raised = llm_chain /\ cout.kind = "raise",
                            ![t].trace = Append(@, "classify"),
                            ![t].pc = "send"]
       IN  IF turn[t].source_lang # "en"
           THEN \E tout \in TranslatorOutcomes(response_text_en, turn[t].source_lang) :
                  LET tr == Translated(response_text_en,
                                       translate_text(response_text_en,
                                                      turn[t].source_lang, tout))
                  IN  /\ faults' = faults + called + TranslatorFault(tout)
                      /\ turn' = IF tr.raised
                                 THEN [classified EXCEPT ![t].pc = "failed",
                                                         ![t].exception = "KeyError"]
                                 ELSE [classified EXCEPT
                                         ![t].final_response = tr.text,
                                         ![t].back_translated = tr.done,
                                         ![t].trace = Append(@, "translate_back")]
           ELSE /\ faults' = faults + called
                /\ turn' = classified
    /\ faults' <= budget
    /\ UNCHANGED <<llm_chain, client, patients, next_id, messages, sends,
                   admitted, requested, route>>

\* a failed dispatch propagates out of process_message instead of being returned
Send_failure_aborts(t, out, budget) ==
    /\ turn[t].pc = "send"
    /\ \E returned \in {send_whatsapp_message(client, turn[t].patient_phone,
                                              turn[t].final_response, out)} :
        /\ sends' = Append(sends,
                      [turn |-> t,
                       to_number |-> ToNumber(turn[t].patient_phone),
                       message_body |-> turn[t].final_response,
                       returned |-> returned])
        /\ turn' = IF returned = "sid"
                   THEN [turn EXCEPT ![t].trace = Append(@, "send"), ![t].pc = "log_out"]
                   ELSE Raise(t, "TwilioRestException")
    /\ faults' = faults + (IF client THEN SendFault(out) ELSE 0)
    /\ faults' <= budget
    /\ UNCHANGED <<llm_chain, client, patients, next_id, messages, admitted,
                   requested, route>>

\* 7. send_whatsapp_message(to_number=patient_phone, message_body=final_response)
Send(t, out, budget) ==
    /\ turn[t].pc = "send"
    /\ sends' = Append(sends,
                  [turn |-> t,
                   to_number |-> ToNumber(turn[t].patient_phone),
                   message_body |-> turn[t].final_response,
                   returned |-> send_whatsapp_message(client, turn[t].patient_phone,
                                                      turn[t].final_response, out)])
    /\ turn' = [turn EXCEPT ![t].trace = Append(@, "send"), ![t].pc = "log_out"]
    /\ faults' = faults + (IF client THEN SendFault(out) ELSE 0)
    /\ faults' <= budget
    /\ UNCHANGED <<llm_chain, client, patients, next_id, messages, admitted,
                   requested, route>>

\* the English text is logged as the content instead of the text that was sent
LogOut_logs_english(t) ==
    /\ turn[t].pc = "log_out"
    /\ messages' = log_message(messages, t, turn[t].patient[1], turn[t].patient_phone,
                               "coordinator", turn[t].response_text_en,
                               OutboundTranslatedContent(turn[t].source_lang,
                                                         turn[t].response_text_en),
                               turn[t].source_lang)
    /\ turn' = [turn EXCEPT
            ![t].result = Some([status |-> "processed",
                                intent |-> turn[t].intent[1],
                                response |-> turn[t].final_response]),
            ![t].trace = Append(@, "log_out"),
            ![t].pc = "done"]
    /\ UNCHANGED <<llm_chain, client, patients, next_id, sends, admitted, faults,
                   requested, route>>

\* 7. log the outgoing message and return the turn result
LogOut(t) ==
    /\ turn[t].pc = "log_out"
    /\ messages' = log_message(messages, t, turn[t].patient[1], turn[t].patient_phone,
                               "coordinator", turn[t].final_response,
                               OutboundTranslatedContent(turn[t].source_lang,
                                                         turn[t].response_text_en),
                               turn[t].source_lang)
    /\ turn' = [turn EXCEPT
            ![t].result = Some([status |-> "processed",
                                intent |-> turn[t].intent[1],
                                response |-> turn[t].final_response]),
            ![t].trace = Append(@, "log_out"),
            ![t].pc = "done"]
    /\ UNCHANGED <<llm_chain, client, patients, next_id, sends, admitted, faults,
                   requested, route>>

\* ----------------------------------------- POST /api/patients/ (threadpool)
\* the query, and the 400 when the phone number is already registered
RouteQuery(r, phone_number, language) ==
    /\ r = requested + 1
    /\ r \in RouteIds
    /\ requested' = r
    /\ route' = [route EXCEPT ![r] =
            IF PatientByPhone(patients, phone_number) # None
            THEN [IdleRoute EXCEPT !.pc = "done", !.status = 400]
            ELSE [pc |-> "insert", phone_number |-> phone_number,
                  language |-> language, status |-> 0]]
    /\ UNCHANGED <<llm_chain, client, patients, next_id, messages, sends,
                   admitted, faults, turn>>

\* add, commit, refresh
RouteInsert(r) ==
    /\ route[r].pc = "insert"
    /\ IF UniqueViolation(patients, route[r].phone_number)
       THEN /\ route' = [route EXCEPT ![r] = [IdleRoute EXCEPT !.pc = "done", !.status = 500]]
            /\ UNCHANGED patients
       ELSE /\ patients' = InsertPatient(patients, next_id, route[r].phone_number,
                                         route[r].language)
            /\ route' = [route EXCEPT ![r] = [IdleRoute EXCEPT !.pc = "done", !.status = 201]]
    /\ next_id' = next_id + 1
    /\ UNCHANGED <<llm_chain, client, messages, sends, admitted, faults, turn, requested>>

\* ------------------------------------------ classify_intent called directly
\* coordinator.classify_intent(message), outside a turn: the slot records the
\* argument and what the call returned
ClassifyCall(t, message, cout) ==
    /\ turn[t].pc = "idle"
    /\ \A u \in TurnIds : u < t => turn[u].pc # "idle"
    /\ turn' = [turn EXCEPT
            ![t].message_for_processing = message,
            ![t].classify_arg = Some(message),
            ![t].intent = Some(classify_intent(llm_chain, message, cout)),
            ![t].llm_called = llm_chain,
            ![t].classifier_raised = llm_chain /\ cout.kind = "raise",
            ![t].trace = Append(@, "classify"),
            ![t].pc = "classified"]
    /\ UNCHANGED <<llm_chain, client, patients, next_id, messages, sends, admitted,
                   faults, requested, route>>

\* -------------------------------------------------------------- behaviours
\* one step of a turn; budget bounds the capability calls that misbehave
TurnStep(t, budget) ==
    \/ \E dout \in DetectOutcomes : Normalize(t, dout, budget)
    \/ Lookup(t)
    \/ Insert(t)
    \/ Update(t)
    \/ LogIn(t)
    \/ \E cout \in ClassifierOutcomes : Respond(t, cout, budget)
    \/ \E out \in SendOutcomes : Send(t, out, budget)
    \/ LogOut(t)

\* Running backend/main.py starts one server process: one event loop, on which
\* the webhook and the turns run, and the threadpool of the synchronous routes.
Next ==
    \/ \E d \in Deliveries : whatsapp_webhook("w1", d[1], d[2])
    \/ \E t \in TurnIds : TurnStep(t, MaxFaults)
    \/ \E r \in RouteIds, p \in Phones, l \in Langs : RouteQuery(r, p, l)
    \/ \E r \in RouteIds : RouteInsert(r)

Spec == Init /\ [][Next]_vars

\* Several server processes behind one address, sharing the database: turns
\* admitted by different processes interleave.
ClusterNext ==
    \/ \E w \in Workers, d \in Deliveries : whatsapp_webhook(w, d[1], d[2])
    \/ \E t \in TurnIds : TurnStep(t, ClusterFaults)
    \/ \E r \in RouteIds, p \in Phones, l \in Langs : RouteQuery(r, p, l)
    \/ \E r \in RouteIds : RouteInsert(r)

ClusterSpec == Init /\ [][ClusterNext]_vars

\* The coordinator's classifier on its own, as a caller of classify_intent sees it.
ClassifyNext ==
    \E t \in TurnIds, message \in ClassifierTexts, cout \in ClassifierOutcomes :
        ClassifyCall(t, message, cout)

ClassifySpec == Init /\ [][ClassifyNext]_vars

\* The one server process again, with the scheduling of its event loop: a task
\* that asyncio.create_task has put on the loop is run.
FairNext ==
    \/ \E d \in Deliveries : whatsapp_webhook("w1", d[1], d[2])
    \/ \E t \in TurnIds : TurnStep(t, FairFaults)
    \/ \E r \in RouteIds, p \in Phones, l \in Langs : RouteQuery(r, p, l)
    \/ \E r \in RouteIds : RouteInsert(r)

FairSpec ==
    /\ Init /\ [][FairNext]_vars
    /\ WF_vars(\E t \in TurnIds : TurnStep(t, FairFaults))

TypeOK ==
    /\ admitted \in 0..MaxTurns
    /\ requested \in 0..MaxRouteCalls
    /\ \A t \in TurnIds : turn[t].pc \in Running \cup {"idle", "scheduled", "done", "failed", "classified"}

\* ================================================================= claims
MsgsOf(t) == SelectSeq(messages, LAMBDA m : m.turn = t)
SendsOf(t) == SelectSeq(sends, LAMBDA c : c.turn = t)
Ended(t) == turn[t].pc \in {"done", "failed"}
DetectionErrored(t) == "error" \in DOMAIN turn[t].lang_detection

\* C1. Transcript pairing: a process_message call that has returned has appended
\* exactly two Message records, the one of the patient before the one of the
\* coordinator, both with session_id = patient_phone and with the same language.
C1_TranscriptPairing ==
    \A t \in TurnIds :
        turn[t].pc = "done" =>
            LET ms == MsgsOf(t)
            IN  /\ Len(ms) = 2
                /\ ms[1].sender = "patient"
                /\ ms[2].sender = "coordinator"
                /\ ms[1].id < ms[2].id
                /\ ms[1].session_id = turn[t].patient_phone
                /\ ms[2].session_id = turn[t].patient_phone
                /\ ms[1].language = ms[2].language
                /\ ms[1].language = turn[t].source_lang

\* two turns of the same session have returned, a Swahili one among them
C1_Witness ==
    /\ \A t \in TurnIds : turn[t].pc = "done"
    /\ Len(messages) = 2 * MaxTurns
    /\ turn[1].patient_phone = turn[2].patient_phone
    /\ \E t \in TurnIds : turn[t].source_lang = "sw"

\* C2. Patient uniqueness under races: whatever the interleaving of the turns of
\* several processes and of the patient-creation route, no two rows of the
\* patients table have the same phone_number.
C2_PatientUnique ==
    \A p \in patients, q \in patients :
        p.phone_number = q.phone_number => p = q

\* two turns for one unseen number both found no row, and one of them inserted
C2_Witness ==
    /\ requested = 0
    /\ turn[1].patient_phone = turn[2].patient_phone
    /\ \E t \in TurnIds, u \in TurnIds :
        /\ turn[t].pc = "insert"
        /\ turn[u].pc \notin {"idle", "scheduled", "lookup", "insert"}
        /\ turn[u].patient # None
        /\ \E p \in patients : p.phone_number = turn[t].patient_phone

\* C3. Identity-constraint recovery: when two turns for one unseen phone number
\* race, the turn whose INSERT is refused re-fetches the row and goes on; no turn
\* ends with the uniqueness violation.
C3_RaceRecovered ==
    requested = 0 =>
        \A t \in TurnIds : turn[t].exception # "IntegrityError"

\* C4. Ordering within one turn: the patient's Message is in the table when the
\* intent is classified, and the intent is classified when the coordinator's
\* Message is appended, which comes after the patient's.
C4_TurnOrdering ==
    \A t \in TurnIds :
        LET ms == MsgsOf(t)
        IN  /\ turn[t].intent # None =>
                /\ Len(ms) >= 1
                /\ ms[1].sender = "patient"
            /\ \A i \in 1..Len(ms) :
                ms[i].sender = "coordinator" =>
                    /\ turn[t].intent # None
                    /\ i > 1
                    /\ ms[1].sender = "patient"
            /\ \A i \in 1..Len(turn[t].trace), j \in 1..Len(turn[t].trace) :
                /\ (turn[t].trace[i] = "log_in" /\ turn[t].trace[j] = "classify") => i < j
                /\ (turn[t].trace[i] = "classify" /\ turn[t].trace[j] = "log_out") => i < j

\* a turn has classified and not yet replied; another has logged both records
C4_Witness ==
    \E t \in TurnIds, u \in TurnIds :
        /\ turn[t].pc = "send" /\ Len(MsgsOf(t)) = 1
        /\ turn[u].pc = "done" /\ Len(MsgsOf(u)) = 2

\* C5. The patient always receives some reply: a turn that has ended has
\* dispatched a non-empty reply through send_whatsapp_message.
C5_ReplyDispatched ==
    \A t \in TurnIds :
        Ended(t) => \E i \in 1..Len(sends) :
                        sends[i].turn = t /\ sends[i].message_body # <<>>

\* C6. Fallback safety: a turn whose detection returned an error and none of whose
\* translations succeeded does not fail, classifies the original inbound text,
\* and returns a non-empty response and an intent.
C6_FallbackSafety ==
    requested = 0 =>
        \A t \in TurnIds :
            (DetectionErrored(t) /\ ~turn[t].in_translated /\ ~turn[t].back_translated) =>
                /\ turn[t].pc # "failed"
                /\ turn[t].classify_arg # None =>
                        turn[t].classify_arg = Some(turn[t].incoming_msg)
                /\ turn[t].pc = "done" =>
                        /\ turn[t].result[1].response # <<>>
                        /\ turn[t].result[1].intent # <<>>

\* C7. The patient's Message has a translated_content only if the inbound text
\* was translated to English in that turn, and never a copy of its content.
C7_InboundTranslatedContent ==
    \A i \in 1..Len(messages) :
        (messages[i].sender = "patient" /\ messages[i].translated_content # None) =>
            /\ turn[messages[i].turn].in_translated
            /\ messages[i].translated_content # Some(messages[i].content)

\* C8. The coordinator's Message has a translated_content only if the reply was
\* translated into the patient's language in that turn.
C8_OutboundTranslatedContent ==
    \A i \in 1..Len(messages) :
        (messages[i].sender = "coordinator" /\ messages[i].translated_content # None) =>
            turn[messages[i].turn].back_translated

\* C9. Closed intent vocabulary: the intent of a turn is one of the eight labels.
C9_ClosedVocabulary ==
    \A t \in TurnIds :
        turn[t].intent # None => turn[t].intent[1] \in IntentVocabulary

\* C10. Classifier failure degrades to 'unclear': a turn whose classifier raised
\* has intent 'unclear' and goes on: it does not fail, it dispatches the unclear
\* template, logs the coordinator's Message and returns intent 'unclear'.
C10_ClassifierFailureContinues ==
    \A t \in TurnIds :
        turn[t].classifier_raised =>
            /\ turn[t].intent = Some(UNCLEAR)
            /\ turn[t].response_text_en = UnclearTemplate
            /\ turn[t].pc # "failed"
            /\ turn[t].pc = "done" =>
                    /\ turn[t].result[1].intent = UNCLEAR
                    /\ Len(SendsOf(t)) = 1
                    /\ Len(MsgsOf(t)) = 2

\* the call of send_whatsapp_message a turn has made did not deliver
SendFailed(t) == \E i \in 1..Len(sends) : sends[i].turn = t /\ sends[i].returned # "sid"

\* C11. A failed dispatch neither suppresses nor rolls back persistence: a turn
\* whose send_whatsapp_message call failed is not aborted, its return finds the
\* coordinator's Message logged with the body it tried to send after the
\* patient's Message and its Patient row in place; and the step that makes the
\* failing call changes neither table.
C11_DispatchFailureKeepsPersistence ==
    /\ [](\A t \in TurnIds :
            SendFailed(t) =>
                /\ turn[t].pc \in {"log_out", "done"}
                /\ \E p \in patients : p.id = turn[t].patient[1]
                                        /\ p.phone_number = turn[t].patient_phone
                /\ Len(MsgsOf(t)) >= 1
                /\ MsgsOf(t)[1].sender = "patient"
                /\ MsgsOf(t)[1].content = turn[t].incoming_msg
                /\ turn[t].pc = "done" =>
                        /\ Len(MsgsOf(t)) = 2
                        /\ MsgsOf(t)[2].sender = "coordinator"
                        /\ MsgsOf(t)[2].content = SendsOf(t)[1].message_body)
    /\ [][\A t \in TurnIds :
            (SendFailed(t)' /\ turn'[t] # turn[t]) =>
                /\ patients' = patients
                /\ \A i \in 1..Len(messages) : messages'[i] = messages[i]]_vars

\* a turn has returned after the transport refused its reply
C11_Witness ==
    \E t \in TurnIds :
        /\ turn[t].pc = "done"
        /\ SendsOf(t)[1].returned = "error"
        /\ Len(MsgsOf(t)) = 2

\* C12. A failed dispatch is reported in the turn's outcome: of two turns that
\* returned the same intent and reply, one whose send_whatsapp_message call
\* failed and one whose call delivered, the results differ.
C12_DispatchFailureReported ==
    \A t \in TurnIds, u \in TurnIds :
        ( /\ turn[t].pc = "done" /\ turn[u].pc = "done"
          /\ turn[t].intent = turn[u].intent
          /\ turn[t].final_response = turn[u].final_response
          /\ SendFailed(t) /\ ~SendFailed(u) )
        => turn[t].result # turn[u].result

\* C13. Fire-and-continue acknowledgement: the webhook answers when it has
\* scheduled the turn, so the acknowledgement is out while the turn has not
\* run; nothing the turn does afterwards, a failure included, changes it; and
\* every scheduled turn runs to its end.
C13_FireAndContinue ==
    /\ [](\A t \in TurnIds : turn[t].pc # "idle" => turn[t].ack = "received")
    /\ [][\A t \in TurnIds : turn[t].ack # "" => turn'[t].ack = turn[t].ack]_vars
    /\ \A t \in TurnIds : (turn[t].pc = "scheduled") ~> Ended(t)

\* one turn is acknowledged and has not started; another, acknowledged too, has failed
C13_Witness ==
    \E t \in TurnIds, u \in TurnIds :
        /\ turn[t].pc = "scheduled" /\ turn[t].ack = "received"
        /\ turn[u].pc = "failed" /\ turn[u].ack = "received"

\* get_or_create_patient has returned a Patient to the turn
Resolved(t) == turn[t].patient # None /\ turn[t].pc \notin {"idle", "scheduled", "lookup", "insert"}
Did(t, step) == \E i \in 1..Len(turn[t].trace) : turn[t].trace[i] = step

\* C14. Idempotent identity: the get_or_create_patient calls of successive turns
\* for one phone number return the same Patient id, only the first of them
\* inserts a row (a later one never reaches the INSERT), and a turn that finds
\* its patient with the language unchanged leaves the patients table as it is.
C14_IdempotentIdentity ==
    /\ [](\A t \in TurnIds, u \in TurnIds :
            (t # u /\ Resolved(t) /\ turn[u].patient_phone = turn[t].patient_phone) =>
                /\ turn[u].pc # "insert"
                /\ Resolved(u) => turn[u].patient = turn[t].patient
                /\ ~(Did(t, "insert") /\ Did(u, "insert")))
    /\ [][\A t \in TurnIds :
            ( /\ turn'[t] # turn[t]
              /\ Resolved(t)'
              /\ ~Did(t, "insert")' /\ ~Did(t, "update")' )
            => patients' = patients /\ next_id' = next_id]_vars

\* the second turn of a session found the Patient the first one inserted, in
\* the same language, and has returned
C14_Witness ==
    \E t \in TurnIds, u \in TurnIds :
        /\ t # u
        /\ turn[t].pc = "done" /\ Did(t, "insert")
        /\ turn[u].pc = "done" /\ ~Did(u, "insert") /\ ~Did(u, "update")
        /\ turn[u].patient = turn[t].patient
        /\ Len(messages) = 4

\* no other turn of the session has resolved its Patient after turn t did
Latest(t) ==
    /\ Resolved(t) /\ turn[t].pc # "update"
    /\ \A u \in TurnIds \ {t} :
        (turn[u].patient_phone = turn[t].patient_phone /\ turn[u].patient # None
            /\ turn[u].pc \notin {"idle", "scheduled", "lookup", "insert"}) =>
                /\ turn[u].pc # "update"
                /\ Len(MsgsOf(u)) >= 1
                /\ Len(MsgsOf(t)) >= 1 => MsgsOf(u)[1].id < MsgsOf(t)[1].id

IdentityOf(pats) == {<<p.id, p.phone_number>> : p \in pats}

\* C15. Language drift: once get_or_create_patient has returned in a turn, the
\* Patient of the session has the language detected in that turn, whether it was
\* stored before with another language or with the same one; and the update
\* keeps the rows' ids and phone numbers.
C15_LanguageDrift ==
    /\ [](\A t \in TurnIds :
            Latest(t) =>
                \E p \in patients :
                    /\ p.id = turn[t].patient[1]
                    /\ p.phone_number = turn[t].patient_phone
                    /\ p.language = turn[t].source_lang)
    /\ [][\A t \in TurnIds :
            (turn[t].pc = "update" /\ turn'[t] # turn[t]) =>
                IdentityOf(patients') = IdentityOf(patients)]_vars

\* a patient first stored with one language has sent a message detected as
\* another, and that turn has returned
C15_Witness ==
    \E t \in TurnIds, u \in TurnIds :
        /\ t # u
        /\ turn[t].pc = "done" /\ Did(t, "insert")
        /\ turn[u].pc = "done" /\ Did(u, "update")
        /\ turn[t].source_lang # turn[u].source_lang
        /\ turn[u].patient = turn[t].patient
        /\ \E p \in patients : p.id = turn[u].patient[1] /\ p.language = turn[u].source_lang

\* C16. Contract errors abort before side effects, and nothing else aborts a
\* turn: a turn that was aborted had no inbound text or no patient identifier,
\* and it has neither created or changed a Patient, nor logged a Message, nor
\* dispatched a reply.
C16_OnlyContractErrorsAbort ==
    \A t \in TurnIds :
        turn[t].pc = "failed" =>
            /\ turn[t].incoming_msg = <<>> \/ turn[t].patient_phone = <<>>
            /\ ~Did(t, "insert") /\ ~Did(t, "update")
            /\ MsgsOf(t) = <<>>
            /\ SendsOf(t) = <<>>

\* the text has the word in it, whatever the case of its letters
Mentions(text, word) ==
    \E i \in 1..Len(text) :
        /\ i + Len(word) - 1 <= Len(text)
        /\ \A k \in 1..Len(word) : LowerChar(text[i + k - 1]) = word[k]

\* C17. Keyword fallback: with llm_chain None, classify_intent does not call the
\* chain and returns 'book_appointment' for a text that mentions 'book' or
\* 'appointment', else 'greeting' for one that mentions 'hello' or 'habari', else
\* 'unclear'; booking wins over greeting.
C17_KeywordFallback ==
    \A t \in TurnIds :
        (turn[t].pc = "classified" /\ ~llm_chain) =>
            LET text == turn[t].classify_arg[1]
                booking == Mentions(text, KW_BOOK) \/ Mentions(text, KW_APPOINTMENT)
                greeting == Mentions(text, KW_HELLO) \/ Mentions(text, KW_HABARI)
            IN  /\ ~turn[t].llm_called
                /\ booking => turn[t].intent = Some(BOOK_APPOINTMENT)
                /\ (~booking /\ greeting) => turn[t].intent = Some(GREETING)
                /\ (~booking /\ ~greeting) => turn[t].intent = Some(UNCLEAR)

\* without a chain, a text with both a greeting and a booking keyword was
\* classified as a booking, and a text with neither as unclear
C17_Witness ==
    /\ ~llm_chain
    /\ \E t \in TurnIds, u \in TurnIds :
        /\ turn[t].classify_arg = Some(TEXT_HELLO_BOOK)
        /\ turn[t].intent = Some(BOOK_APPOINTMENT)
        /\ turn[u].classify_arg = Some(TEXT_BOO)
        /\ turn[u].intent = Some(UNCLEAR)

\* C18. Response synthesis: the English reply is fixed by the intent alone:
\* 'greeting', 'book_appointment' and 'unclear' have their own templates, any
\* other intent gets the generic acknowledgement that names it; and the body
\* dispatched in an English turn is that reply.
C18_ResponseSynthesis ==
    /\ \A t \in TurnIds :
        turn[t].intent # None =>
            LET intent == turn[t].intent[1]
                reply == turn[t].response_text_en
            IN  /\ intent = GREETING => reply = GreetingTemplate
                /\ intent = BOOK_APPOINTMENT => reply = BookTemplate
                /\ intent = UNCLEAR => reply = UnclearTemplate
                /\ intent \notin {GREETING, BOOK_APPOINTMENT, UNCLEAR} =>
                        /\ reply \notin {GreetingTemplate, BookTemplate, UnclearTemplate}
                        /\ reply = GenericTemplate(intent)
                        /\ Contains(reply, intent)
                /\ \A u \in TurnIds : turn[u].intent = turn[t].intent =>
                        turn[u].response_text_en = reply
    /\ \A i \in 1..Len(sends) :
        turn[sends[i].turn].source_lang = "en" =>
            sends[i].message_body = turn[sends[i].turn].response_text_en

\* an English turn was answered with the generic acknowledgement, another with
\* the template for an unclear message
C18_Witness ==
    \E t \in TurnIds, u \in TurnIds :
        /\ turn[t].pc = "done" /\ turn[t].source_lang = "en"
        /\ turn[t].intent = Some(LLM_OTHER)
        /\ SendsOf(t)[1].message_body = GenericTemplate(LLM_OTHER)
        /\ turn[u].pc = "done" /\ turn[u].source_lang = "en"
        /\ turn[u].intent = Some(UNCLEAR)
        /\ SendsOf(u)[1].message_body = UnclearTemplate

\* C19. Classifier input selection: the text classify_intent gets is the English
\* translation exactly when the detection gave a non-English language without
\* an error and the translation to English succeeded; otherwise it is the
\* inbound text itself; and no inbound translation is attempted for a message
\* detected as English or whose detection errored.
C19_ClassifierInput ==
    \A t \in TurnIds :
        /\ Did(t, "translate_in") =>
                /\ turn[t].source_lang # "en"
                /\ ~DetectionErrored(t)
        /\ turn[t].in_translated => Did(t, "translate_in")
        /\ turn[t].classify_arg # None =>
                IF turn[t].in_translated
                THEN /\ turn[t].classify_arg = Some(Rendered(turn[t].incoming_msg, "en"))
                     /\ turn[t].classify_arg # Some(turn[t].incoming_msg)
                ELSE turn[t].classify_arg = Some(turn[t].incoming_msg)

\* one turn classified the translation of its message; another, whose detection
\* errored with a non-English language, classified the message itself
C19_Witness ==
    \E t \in TurnIds, u \in TurnIds :
        /\ turn[t].in_translated
        /\ turn[t].classify_arg = Some(Rendered(turn[t].incoming_msg, "en"))
        /\ DetectionErrored(u) /\ turn[u].source_lang = "sw"
        /\ turn[u].classify_arg = Some(turn[u].incoming_msg)

\* the Message rows of a session that one sender wrote
SessionMsgs(session_id, sender) ==
    SelectSeq(messages, LAMBDA m : m.session_id = session_id /\ m.sender = sender)

\* C20. In every state, also after a turn has failed midway and with the turns
\* of several processes interleaved, a session has at least as many Messages of
\* the patient as of the coordinator, and every Message of the coordinator comes
\* after the patient's Message of the same turn.
C20_InboundCoversOutbound ==
    /\ \A s \in Phones :
        Len(SessionMsgs(s, "patient")) >= Len(SessionMsgs(s, "coordinator"))
    /\ \A i \in 1..Len(messages) :
        messages[i].sender = "coordinator" =>
            \E j \in 1..(i - 1) :
                /\ messages[j].sender = "patient"
                /\ messages[j].turn = messages[i].turn
                /\ messages[j].session_id = messages[i].session_id

\* the turns of two processes have interleaved their records in one session,
\* and one of them failed after logging the patient's Message
C20_Witness ==
    \E t \in TurnIds, u \in TurnIds :
        /\ turn[t].patient_phone = turn[u].patient_phone
        /\ turn[t].worker # turn[u].worker
        /\ turn[t].pc = "failed" /\ Len(MsgsOf(t)) = 1
        /\ turn[u].pc = "done"
        /\ MsgsOf(u)[1].id < MsgsOf(t)[1].id
        /\ MsgsOf(t)[1].id < MsgsOf(u)[2].id

\* C21. Within a turn the reply is dispatched before the coordinator's Message
\* is appended, and the body handed to send_whatsapp_message, the content of
\* that Message and the 'response' of the returned result are one text: every
\* Message of the coordinator has a send of its turn with its content as body.
C21_SentBeforeLogged ==
    /\ \A i \in 1..Len(messages) :
        messages[i].sender = "coordinator" =>
            /\ Len(SendsOf(messages[i].turn)) = 1
            /\ SendsOf(messages[i].turn)[1].message_body = messages[i].content
    /\ \A t \in TurnIds :
        /\ \A i \in 1..Len(turn[t].trace), j \in 1..Len(turn[t].trace) :
            (turn[t].trace[i] = "send" /\ turn[t].trace[j] = "log_out") => i < j
        /\ Did(t, "log_out") => Did(t, "send")
        /\ turn[t].pc = "done" =>
            /\ turn[t].result[1].response = SendsOf(t)[1].message_body
            /\ turn[t].result[1].response = MsgsOf(t)[2].content

\* a turn has returned whose reply was translated: the text sent, logged and
\* returned is the translation, not the English reply
C21_Witness ==
    \E t \in TurnIds :
        /\ turn[t].pc = "done"
        /\ turn[t].back_translated
        /\ turn[t].result[1].response # turn[t].response_text_en
        /\ MsgsOf(t)[2].content = SendsOf(t)[1].message_body

\* the detection of the turn has returned, with no language code in its result
NoLanguageDetected(t) == Did(t, "detect") /\ "language" \notin DOMAIN turn[t].lang_detection

\* C22. A turn whose detection returns no language code is processed as English:
\* its Messages are tagged 'en', nothing is translated in either direction, and
\* once it has resolved its patient the stored language is 'en', also when it
\* was another one before.
C22_NoLanguageIsEnglish ==
    \A t \in TurnIds :
        NoLanguageDetected(t) =>
            /\ turn[t].source_lang = "en"
            /\ ~Did(t, "translate_in") /\ ~Did(t, "translate_back")
            /\ ~turn[t].in_translated /\ ~turn[t].back_translated
            /\ turn[t].exception # "KeyError"
            /\ \A i \in 1..Len(MsgsOf(t)) :
                /\ MsgsOf(t)[i].language = "en"
                /\ MsgsOf(t)[i].translated_content = None
            /\ \A i \in 1..Len(SendsOf(t)) :
                SendsOf(t)[i].message_body = turn[t].response_text_en
            /\ Latest(t) =>
                \E p \in patients : p.id = turn[t].patient[1] /\ p.language = "en"

\* a patient stored with 'sw' by one turn has sent a message whose detection
\* gave no language code; that turn updated the row to 'en' and has returned
C22_Witness ==
    \E t \in TurnIds, u \in TurnIds :
        /\ t # u
        /\ turn[t].pc = "done" /\ Did(t, "insert") /\ turn[t].source_lang = "sw"
        /\ turn[u].pc = "done" /\ NoLanguageDetected(u) /\ Did(u, "update")
        /\ turn[u].patient = turn[t].patient
        /\ \E p \in patients : p.id = turn[u].patient[1] /\ p.language = "en"
        /\ Len(MsgsOf(u)) = 2

\* C23. process_message has no suspension point: while a turn is executing, no
\* other turn of its process takes a step and its process admits no delivery,
\* so two turns of one process are never executing together and their Messages
\* are never interleaved.
C23_NoSuspensionPoint ==
    /\ [](\A t \in TurnIds, u \in TurnIds :
            (t # u /\ turn[t].worker = turn[u].worker) =>
                /\ ~(turn[t].pc \in Running /\ turn[u].pc \in Running)
                /\ \A i \in 1..Len(messages), j \in 1..Len(messages), k \in 1..Len(messages) :
                    (i < j /\ j < k /\ messages[i].turn = t /\ messages[k].turn = t) =>
                        messages[j].turn # u)
    /\ [][\A t \in TurnIds, u \in TurnIds :
            (t # u /\ turn[t].pc \in Running /\ turn'[u] # turn[u]) =>
                turn'[u].worker # turn[t].worker]_vars

\* a turn is executing, its inbound Message logged, while another turn is
\* scheduled on the same event loop and waits
C23_Witness ==
    \E t \in TurnIds, u \in TurnIds :
        /\ t # u
        /\ turn[t].worker = turn[u].worker
        /\ turn[t].pc = "log_out" /\ Len(MsgsOf(t)) = 1
        /\ turn[u].pc = "scheduled"

====
